---- MODULE Spec2Model ----
(***************************************************************************)
(* cargo-prepare (src/src/main.rs): main() and initialize_fake_workspace().*)
(* Paths are sequences of components; the real workspace is read-only and  *)
(* the destination file system is the pair (files, dirs).                  *)
(***************************************************************************)
EXTENDS Naturals, Sequences, FiniteSets, TLC

\* ------------------------------------------------------------------ bounds
\* At most MaxPkgs packages in metadata.packages.
MaxPkgs == 2
\* At most MaxTargets targets in the whole workspace (summed over packages).
MaxTargets == 2

\* ------------------------------------------------------------------ paths
Parent(p) == SubSeq(p, 1, Len(p) - 1)

IsPrefix(base, p) ==
    /\ Len(base) <= Len(p)
    /\ SubSeq(p, 1, Len(base)) = base

\* Path::strip_prefix: Ok(remainder) when base is a prefix of p, Err otherwise.
StripOk(p, base) == IsPrefix(base, p)

strip_prefix(p, base) == SubSeq(p, Len(base) + 1, Len(p))

\* Path::join with a relative right-hand side.
join(base, rel) == base \o rel

\* Every ancestor of p, p included (what create_dir_all leaves as directories).
Ancestors(p) == { SubSeq(p, 1, k) : k \in 0..Len(p) }

\* ------------------------------------------------- the real workspace (input)
workspace_root == <<"ws">>

\* The directory main() hands to initialize_fake_workspace: --dest, or the
\* fresh temporary directory.
Dest == <<"skel">>

LockBytes == <<76>>

SrcPaths ==
    { <<"ws", "src", "lib.rs">>,
      <<"ws", "a", "src", "lib.rs">>,
      <<"ws", "a", "Cargo.toml">>,
      <<"ws", "Cargo.lock">> }

\* The packages cargo metadata may report: the root package, a nested package,
\* and a package whose manifest lies outside the workspace root.
Catalog ==
    { [id |-> "r", manifest_path |-> <<"ws", "Cargo.toml">>],
      [id |-> "a", manifest_path |-> <<"ws", "a", "Cargo.toml">>],
      [id |-> "x", manifest_path |-> <<"ext", "x", "Cargo.toml">>] }

\* Bytes of the real files. <<"ws","a","src","lib.rs">> does not exist on disk;
\* <<"ws","src","lib.rs">> is a non-empty source file.
RealFiles ==
    (<<"ws", "Cargo.lock">> :> LockBytes)
    @@ (<<"ws", "Cargo.toml">> :> <<77, 114>>)
    @@ (<<"ws", "a", "Cargo.toml">> :> <<77, 97>>)
    @@ (<<"ext", "x", "Cargo.toml">> :> <<77, 120>>)
    @@ (<<"ws", "src", "lib.rs">> :> <<102, 110>>)

CatalogSeqs(n) ==
    { ps \in [1..n -> Catalog] : \A k, l \in 1..n : ps[k] = ps[l] => k = l }

RECURSIVE Sum(_, _)
Sum(lens, n) == IF n = 0 THEN 0 ELSE lens[n] + Sum(lens, n - 1)

\* Package k of the metadata: catalog package ps[k] with lens[k] targets, taken
\* in order from the flat list of source paths.
BuildPackage(ps, lens, flat, k) ==
    [id |-> ps[k].id,
     manifest_path |-> ps[k].manifest_path,
     targets |-> [t \in 1..lens[k] |-> [src_path |-> flat[Sum(lens, k - 1) + t]]]]

BuildMetadata(ps, lens, flat, ms) ==
    [packages |-> [k \in 1..Len(ps) |-> BuildPackage(ps, lens, flat, k)],
     workspace_members |-> ms]

NoMetadata == [packages |-> <<>>, workspace_members |-> {}]

\* Exit statuses the launched cargo may end with.
Statuses == {0, 1, 2, 101}

\* ------------------------------------------------------------------ state
VARIABLES
    mode,        \* "dest" (--dest given) or "forward" (arguments forwarded to cargo)
    pre,         \* the --dest path before the run: "absent", "empty" or "populated"
    metadata,    \* what MetadataCommand::exec returns
    files,       \* destination file system: path -> bytes
    dirs,        \* destination file system: the directories
    pc,          \* position in main / initialize_fake_workspace
    i,           \* index of the current member in members
    j,           \* index of the current target of that member
    initRet,     \* what initialize_fake_workspace returned: none, ok, err, panic
    result,      \* what main returned: none, ok, err, panic
    error,       \* the context message of the error
    launched,    \* the cargo process was launched
    childStatus, \* its exit status
    exitCode,    \* the exit status of the invocation (NoExit while it runs)
    log,         \* history: the file-system operations done on the destination
    reads        \* history: the real files opened for reading

vars == <<mode, pre, metadata, files, dirs, pc, i, j, initRet, result, error,
          launched, childStatus, exitCode, log, reads>>

NoExit == "running"

\* ------------------------------------------- initialize_fake_workspace: values
lock_file == join(workspace_root, <<"Cargo.lock">>)

tmp_lock_file(destination) == join(destination, <<"Cargo.lock">>)

\* Mutant: the membership test left out.
IsMemberAny(md, x) == TRUE

IsMember(md, x) == x.id \in md.workspace_members

members(md) == SelectSeq(md.packages, LAMBDA x : IsMember(md, x))

\* The parent().unwrap() of lines 86, 92 and 111 cannot fail: a manifest path
\* and a source path always have a parent.
package_path(member) == Parent(member.manifest_path)

relative_path(member) == strip_prefix(member.manifest_path, workspace_root)

\* Mutant: the manifest copied under its file name instead of its relative path.
tmp_manifestFileName(destination, member) ==
    join(destination, <<member.manifest_path[Len(member.manifest_path)]>>)

tmp_manifest(destination, member) == join(destination, relative_path(member))

tmp_package(destination, member) == Parent(tmp_manifest(destination, member))

relative_src_file(member, target) == strip_prefix(target.src_path, package_path(member))

\* Mutant: the source path joined to the destination root instead of the
\* destination package directory.
tmp_src_fileFromRoot(destination, member, target) ==
    join(destination, relative_src_file(member, target))

tmp_src_file(destination, member, target) ==
    join(tmp_package(destination, member), relative_src_file(member, target))

\* Mutant: the package directory taken for the stub's parent directory.
tmp_src_dirIsPackage(destination, member, target) == tmp_package(destination, member)

tmp_src_dir(destination, member, target) == Parent(tmp_src_file(destination, member, target))

\* Mutant: the real source file copied.
StubBytesFromSource(target) ==
    IF target.src_path \in DOMAIN RealFiles THEN RealFiles[target.src_path] ELSE <<>>

\* fs::write(&tmp_src_file, ""): the bytes written for a target.
StubBytes(target) == <<>>

\* ------------------------------------------------------- file-system semantics
\* Each std::fs call is one step: it either takes effect as a whole or fails
\* and leaves the destination as it was. Besides the failures decided by the
\* state of the destination below, every call may fail for a reason outside
\* the model (permissions, a full disk, a missing source file).
\* Mutant: create_dir_all's semantics, which accepts an existing directory.
CanCreateDirExisting(p) ==
    /\ p \notin DOMAIN files
    /\ Parent(p) \in dirs

\* fs::create_dir: the path must not exist and its parent must be a directory.
CanCreateDir(p) ==
    /\ p \notin dirs
    /\ p \notin DOMAIN files
    /\ Parent(p) \in dirs

\* fs::create_dir_all: no component may be an existing file.
CanCreateDirAll(p) == Ancestors(p) \cap DOMAIN files = {}

\* fs::copy / fs::write create or truncate the destination file.
CanWriteFile(p) ==
    /\ Parent(p) \in dirs
    /\ p \notin dirs

CanRead(p) == p \in DOMAIN RealFiles

Put(f, p, bytes) == [q \in DOMAIN f \cup {p} |-> IF q = p THEN bytes ELSE f[q]]

\* ------------------------------------------------------------- control flow
Member == members(metadata)[i]

Target == Member.targets[j]

\* Mutant: the function returns after the first member's targets.
AfterTargetFirstMember(m, t) ==
    IF t < Len(members(metadata)[m].targets) THEN <<"src_dir", m, t + 1>>
    ELSE <<"return", m, t>>

\* Where the for loops go after the manifest copy (t = 0) or after target t of
\* member m: the next target, the next member, or the end of the function.
AfterTarget(m, t) ==
    IF t < Len(members(metadata)[m].targets) THEN <<"src_dir", m, t + 1>>
    ELSE IF m < Len(members(metadata)) THEN <<"pkg_dir", m + 1, 0>>
    ELSE <<"return", m, t>>

\* Where main continues once initialize_fake_workspace returned Ok.
AfterInit == IF mode = "forward" THEN "launch" ELSE "exit"

\* Mutant: the error is dropped and main goes on to launch cargo.
ErrPcIgnored == "launch"

\* The `?` operator in main: an error returns from main at once.
ErrPc == "exit"

Fail(msg, inInit) ==
    /\ result' = "err"
    /\ error' = msg
    /\ initRet' = IF inInit THEN "err" ELSE initRet
    /\ pc' = ErrPc
    /\ UNCHANGED <<mode, pre, metadata, files, dirs, i, j, launched, childStatus,
                   exitCode, log, reads>>

\* Result::unwrap on an Err: the thread panics.
Panic ==
    /\ result' = "panic"
    /\ error' = "called Result::unwrap() on an Err value: StripPrefixError(())"
    /\ initRet' = "panic"
    /\ pc' = "exit"
    /\ UNCHANGED <<mode, pre, metadata, files, dirs, i, j, launched, childStatus,
                   exitCode, log, reads>>

Init ==
    /\ mode \in {"dest", "forward"}
    /\ pre \in IF mode = "dest" THEN {"absent", "empty", "populated"} ELSE {"absent"}
    /\ metadata = NoMetadata
    /\ files = IF pre = "populated" THEN (join(Dest, <<"Cargo.lock">>) :> <<79>>)
               ELSE <<>>
    /\ dirs = IF pre = "absent" THEN {<<>>} ELSE {<<>>, Dest}
    /\ pc = "metadata"
    /\ i = 0
    /\ j = 0
    /\ initRet = "none"
    /\ result = "none"
    /\ error = ""
    /\ launched = FALSE
    /\ childStatus = NoExit
    /\ exitCode = NoExit
    /\ log = <<>>
    /\ reads = {}

\* main, lines 35-40: read the metadata, then branch on --dest.
MetadataExec ==
    /\ pc = "metadata"
    /\ \/ \E n \in 0..MaxPkgs :
          \E ps \in CatalogSeqs(n) :
          \E lens \in { l \in [1..n -> 0..MaxTargets] : Sum(l, n) <= MaxTargets } :
          \E flat \in [1..Sum(lens, n) -> SrcPaths] :
          \E ms \in SUBSET { ps[k].id : k \in 1..n } :
            /\ metadata' = BuildMetadata(ps, lens, flat, ms)
            /\ pc' = IF mode = "dest" THEN "create_dir" ELSE "tempdir"
            /\ UNCHANGED <<mode, pre, files, dirs, i, j, initRet, result,
                           error, launched, childStatus, exitCode, log, reads>>
       \/ Fail("could not read cargo metadata", FALSE)

\* main, line 41.
CreateDir ==
    /\ pc = "create_dir"
    /\ \/ /\ CanCreateDir(Dest)
          /\ dirs' = dirs \cup {Dest}
          /\ log' = Append(log, [op |-> "create_dir", path |-> Dest, bytes |-> <<>>])
          /\ pc' = "copy_lock"
          /\ UNCHANGED <<mode, pre, metadata, files, i, j, initRet, result, error,
                         launched, childStatus, exitCode, reads>>
       \/ Fail("could not create destination directory", FALSE)

\* main, line 44.
TempDir ==
    /\ pc = "tempdir"
    /\ \/ /\ dirs' = dirs \cup {Dest}
          /\ log' = Append(log, [op |-> "tempdir", path |-> Dest, bytes |-> <<>>])
          /\ pc' = "copy_lock"
          /\ UNCHANGED <<mode, pre, metadata, files, i, j, initRet, result, error,
                         launched, childStatus, exitCode, reads>>
       \/ Fail("could not create temporary directory", FALSE)

Return ==
    /\ initRet' = "ok"
    /\ pc' = AfterInit
    /\ result' = IF mode = "dest" THEN "ok" ELSE result

\* initialize_fake_workspace, lines 68-83.
CopyLock ==
    /\ pc = "copy_lock"
    /\ \/ /\ CanRead(lock_file)
          /\ CanWriteFile(tmp_lock_file(Dest))
          /\ files' = Put(files, tmp_lock_file(Dest), RealFiles[lock_file])
          /\ reads' = reads \cup {lock_file}
          /\ log' = Append(log, [op |-> "copy_lock", path |-> tmp_lock_file(Dest),
                                 bytes |-> RealFiles[lock_file]])
          /\ IF members(metadata) = <<>>
             THEN /\ Return
                  /\ UNCHANGED <<i, j>>
             ELSE /\ pc' = "pkg_dir"
                  /\ i' = 1
                  /\ j' = 0
                  /\ UNCHANGED <<initRet, result>>
          /\ UNCHANGED <<mode, pre, metadata, dirs, error, launched, childStatus,
                         exitCode>>
       \/ Fail("could not copy Cargo.lock file", TRUE)

\* lines 86-99.
PackageDir ==
    /\ pc = "pkg_dir"
    /\ \/ /\ ~StripOk(Member.manifest_path, workspace_root)
          /\ Panic
       \/ /\ StripOk(Member.manifest_path, workspace_root)
          /\ CanCreateDirAll(tmp_package(Dest, Member))
          /\ dirs' = dirs \cup Ancestors(tmp_package(Dest, Member))
          /\ log' = Append(log, [op |-> "create_dir_all",
                                 path |-> tmp_package(Dest, Member), bytes |-> <<>>])
          /\ pc' = "copy_manifest"
          /\ UNCHANGED <<mode, pre, metadata, files, i, j, initRet, result, error,
                         launched, childStatus, exitCode, reads>>
       \/ /\ StripOk(Member.manifest_path, workspace_root)
          /\ Fail("could not create package directory", TRUE)

\* lines 100-106, and the loop heads of lines 108 and 85.
CopyManifest ==
    /\ pc = "copy_manifest"
    /\ \/ /\ CanRead(Member.manifest_path)
          /\ CanWriteFile(tmp_manifest(Dest, Member))
          /\ files' = Put(files, tmp_manifest(Dest, Member), RealFiles[Member.manifest_path])
          /\ reads' = reads \cup {Member.manifest_path}
          /\ log' = Append(log, [op |-> "copy_manifest",
                                 path |-> tmp_manifest(Dest, Member),
                                 bytes |-> RealFiles[Member.manifest_path]])
          /\ LET nxt == AfterTarget(i, 0) IN
             IF nxt[1] = "return"
             THEN /\ Return
                  /\ UNCHANGED <<i, j>>
             ELSE /\ pc' = nxt[1]
                  /\ i' = nxt[2]
                  /\ j' = nxt[3]
                  /\ UNCHANGED <<initRet, result>>
          /\ UNCHANGED <<mode, pre, metadata, dirs, error, launched, childStatus,
                         exitCode>>
       \/ Fail("could not copy manifest file", TRUE)

\* lines 109-118.
SrcDir ==
    /\ pc = "src_dir"
    /\ \/ /\ ~StripOk(Target.src_path, package_path(Member))
          /\ Panic
       \/ /\ StripOk(Target.src_path, package_path(Member))
          /\ CanCreateDirAll(tmp_src_dir(Dest, Member, Target))
          /\ dirs' = dirs \cup Ancestors(tmp_src_dir(Dest, Member, Target))
          /\ log' = Append(log, [op |-> "create_dir_all",
                                 path |-> tmp_src_dir(Dest, Member, Target),
                                 bytes |-> <<>>])
          /\ pc' = "write_stub"
          /\ UNCHANGED <<mode, pre, metadata, files, i, j, initRet, result, error,
                         launched, childStatus, exitCode, reads>>
       \/ /\ StripOk(Target.src_path, package_path(Member))
          /\ Fail("could not create package's subdirectory", TRUE)

\* lines 119-121, and the loop heads.
WriteStub ==
    /\ pc = "write_stub"
    /\ \/ /\ CanWriteFile(tmp_src_file(Dest, Member, Target))
          /\ files' = Put(files, tmp_src_file(Dest, Member, Target), StubBytes(Target))
          /\ log' = Append(log, [op |-> "write_stub",
                                 path |-> tmp_src_file(Dest, Member, Target),
                                 bytes |-> StubBytes(Target)])
          /\ LET nxt == AfterTarget(i, j) IN
             IF nxt[1] = "return"
             THEN /\ Return
                  /\ UNCHANGED <<i, j>>
             ELSE /\ pc' = nxt[1]
                  /\ i' = nxt[2]
                  /\ j' = nxt[3]
                  /\ UNCHANGED <<initRet, result>>
          /\ UNCHANGED <<mode, pre, metadata, dirs, error, launched, childStatus,
                         exitCode, reads>>
       \/ Fail("could not create source file", TRUE)

\* main, lines 51-61: launch cargo and look at its status.
Launch ==
    /\ pc = "launch"
    /\ \/ \E s \in Statuses :
            /\ launched' = TRUE
            /\ childStatus' = s
            /\ result' = IF s = 0 THEN "ok" ELSE "err"
            /\ error' = IF s = 0 THEN error ELSE "cargo command failed"
            /\ pc' = "exit"
            /\ UNCHANGED <<mode, pre, metadata, files, dirs, i, j, initRet, exitCode,
                           log, reads>>
       \/ Fail("could not execute cargo command", FALSE)

\* Mutant: an Err returned by main exits with success.
ExitStatusErrIgnored(r) == IF r = "panic" THEN 101 ELSE 0

\* The exit status of a Rust process whose main returned r, or panicked.
ExitStatus(r) ==
    IF r = "ok" THEN 0
    ELSE IF r = "err" THEN 1
    ELSE 101

UnderDest(p) == IsPrefix(Dest, p)

\* main returns (line 64, or an error, or a panic): the temporary directory is
\* dropped, which removes it; a panic removes it only when the build unwinds.
Exit ==
    /\ pc = "exit"
    /\ exitCode' = ExitStatus(result)
    /\ pc' = "done"
    /\ \E unwinds \in IF result = "panic" THEN BOOLEAN ELSE {TRUE} :
         IF mode = "forward" /\ unwinds
         THEN /\ files' = [q \in { p \in DOMAIN files : ~UnderDest(p) } |-> files[q]]
              /\ dirs' = { d \in dirs : ~UnderDest(d) }
         ELSE UNCHANGED <<files, dirs>>
    /\ UNCHANGED <<mode, pre, metadata, i, j, initRet, result, error, launched,
                   childStatus, log, reads>>

Next ==
    \/ MetadataExec
    \/ CreateDir
    \/ TempDir
    \/ CopyLock
    \/ PackageDir
    \/ CopyManifest
    \/ SrcDir
    \/ WriteStub
    \/ Launch
    \/ Exit

Spec == Init /\ [][Next]_vars

\* ------------------------------------------------ reference definitions
\* What the claims speak of, stated without the helpers of the code above.
Rebase(path, fromBase, toBase) == toBase \o SubSeq(path, Len(fromBase) + 1, Len(path))

MemberPkgs(md) == SelectSeq(md.packages, LAMBDA x : x.id \in md.workspace_members)

DestLock == Dest \o <<"Cargo.lock">>

DestManifest(m) == Rebase(m.manifest_path, workspace_root, Dest)

DestSource(m, t) ==
    Rebase(t.src_path, Parent(m.manifest_path), Parent(DestManifest(m)))

ManifestUnderRoot(m) == IsPrefix(workspace_root, m.manifest_path)

SourceUnderPackage(m, t) == IsPrefix(Parent(m.manifest_path), t.src_path)

Op(o, p, b) == [op |-> o, path |-> p, bytes |-> b]

FileOps == {"copy_lock", "copy_manifest", "write_stub"}

\* The operations a run without I/O failure performs, in order, up to the first
\* path that is not under its base (ok = FALSE when there is one).
RECURSIVE PlanTargets(_, _)
PlanTargets(m, t) ==
    IF t > Len(m.targets) THEN [ops |-> <<>>, ok |-> TRUE]
    ELSE IF ~SourceUnderPackage(m, m.targets[t]) THEN [ops |-> <<>>, ok |-> FALSE]
    ELSE LET rest == PlanTargets(m, t + 1)
             dst == DestSource(m, m.targets[t])
         IN [ops |-> <<Op("create_dir_all", Parent(dst), <<>>),
                       Op("write_stub", dst, <<>>)>> \o rest.ops,
             ok |-> rest.ok]

RECURSIVE PlanMembers(_, _)
PlanMembers(ms, k) ==
    IF k > Len(ms) THEN [ops |-> <<>>, ok |-> TRUE]
    ELSE IF ~ManifestUnderRoot(ms[k]) THEN [ops |-> <<>>, ok |-> FALSE]
    ELSE LET ts == PlanTargets(ms[k], 1)
             own == <<Op("create_dir_all", Parent(DestManifest(ms[k])), <<>>),
                      Op("copy_manifest", DestManifest(ms[k]),
                         RealFiles[ms[k].manifest_path])>> \o ts.ops
         IN IF ~ts.ok THEN [ops |-> own, ok |-> FALSE]
            ELSE LET rest == PlanMembers(ms, k + 1)
                 IN [ops |-> own \o rest.ops, ok |-> rest.ok]

Plan(md) ==
    LET r == PlanMembers(MemberPkgs(md), 1)
    IN [ops |-> <<Op("copy_lock", DestLock, LockBytes)>> \o r.ops, ok |-> r.ok]

\* The files a sequence of operations leaves in an empty destination, as
\* <<path, bytes>> pairs: the last write to a path decides its bytes.
IsLastWrite(ops, k) ==
    /\ ops[k].op \in FileOps
    /\ \A l \in (k + 1)..Len(ops) : ~(ops[l].op \in FileOps /\ ops[l].path = ops[k].path)

Replay(ops) ==
    { <<ops[k].path, ops[k].bytes>> : k \in { l \in 1..Len(ops) : IsLastWrite(ops, l) } }

FilePairs == { <<p, files[p]>> : p \in DOMAIN files }

\* The operations of initialize_fake_workspace: the log without its first
\* entry, main's own creation of the destination directory.
MatLog == IF log = <<>> THEN <<>> ELSE Tail(log)

\* initialize_fake_workspace has returned and main has not yet dropped the
\* temporary directory.
Returned == initRet # "none" /\ pc \in {"launch", "exit"}

WriteCount(p) ==
    Cardinality({ k \in 1..Len(log) : log[k].op \in FileOps /\ log[k].path = p })

\* The destination paths of the member manifests and of their targets.
ManifestPaths(md) ==
    LET ms == MemberPkgs(md)
    IN { DestManifest(ms[k]) : k \in { l \in 1..Len(ms) : ManifestUnderRoot(ms[l]) } }

\* <<k, t>>: target t of member k, for the targets that get a stub.
TargetSlots(md) ==
    LET ms == MemberPkgs(md)
    IN { s \in (1..Len(ms)) \X (1..MaxTargets) :
           /\ s[2] <= Len(ms[s[1]].targets)
           /\ ManifestUnderRoot(ms[s[1]])
           /\ SourceUnderPackage(ms[s[1]], ms[s[1]].targets[s[2]]) }

SlotPath(md, s) == DestSource(MemberPkgs(md)[s[1]], MemberPkgs(md)[s[1]].targets[s[2]])

\* The destination paths of the stubs, as <<slot, path>> pairs.
SlotPaths(md) ==
    LET ms == MemberPkgs(md)
    IN { <<s, DestSource(ms[s[1]], ms[s[1]].targets[s[2]])>> : s \in TargetSlots(md) }

\* No target is re-rooted onto the lockfile or onto a member's manifest.
NoStubOverFile(md) ==
    LET taken == {DestLock} \cup ManifestPaths(md)
    IN \A sp \in SlotPaths(md) : sp[2] \notin taken

\* No target of one member is re-rooted onto another member's manifest.
NoStubOverOtherManifest(md) ==
    LET ms == MemberPkgs(md)
    IN \A sp \in SlotPaths(md) : \A k \in 1..Len(ms) :
          (k # sp[1][1] /\ ManifestUnderRoot(ms[k])) => sp[2] # DestManifest(ms[k])

\* The lockfile, the member manifests and the targets are re-rooted to
\* pairwise different destination paths.
DistinctPaths(md) ==
    /\ NoStubOverFile(md)
    /\ LET sps == SlotPaths(md)
       IN \A sp1, sp2 \in sps : sp1[2] = sp2[2] => sp1[1] = sp2[1]

ExpectedTree(md) ==
    LET ms == MemberPkgs(md)
    IN {<<DestLock, LockBytes>>}
       \cup { <<DestManifest(ms[k]), RealFiles[ms[k].manifest_path]>> : k \in 1..Len(ms) }
       \cup { <<sp[2], <<>>>> : sp \in SlotPaths(md) }

IoErrors ==
    { "could not read cargo metadata", "could not create destination directory",
      "could not create temporary directory", "could not copy Cargo.lock file",
      "could not create package directory", "could not copy manifest file",
      "could not create package's subdirectory", "could not create source file",
      "could not execute cargo command" }

\* ------------------------------------------------------------------ claims

\* C1 (as stated): whenever initialize_fake_workspace succeeds on an empty
\* destination, the destination holds exactly the lockfile with the source
\* lockfile's bytes, every member's manifest byte-identical at its re-rooted
\* path, one zero-length file per target of a member, and nothing else.
C1_ExactTree == (Returned /\ initRet = "ok") => FilePairs = ExpectedTree(metadata)

\* C1 (amended): the same, for metadata in which no target is re-rooted onto
\* the lockfile or onto a member's manifest.
C1_ExactTreeNoConflict ==
    (Returned /\ initRet = "ok" /\ NoStubOverFile(metadata))
        => FilePairs = ExpectedTree(metadata)

\* A success with a member that has a target, beside a package that is not a member.
C1_Witness ==
    /\ Returned /\ initRet = "ok" /\ NoStubOverFile(metadata)
    /\ Len(MemberPkgs(metadata)) < Len(metadata.packages)
    /\ TargetSlots(metadata) # {}

\* C2: when a member's manifest is not under the workspace root, or a target's
\* source is not under its package directory, and no I/O step failed before,
\* initialize_fake_workspace returns an error result naming PathNotUnderBase
\* (it does not abort the process).
C2_PathErrorReported ==
    (initRet # "none" /\ ~Plan(metadata).ok /\ error \notin IoErrors)
        => (initRet = "err" /\ error = "PathNotUnderBaseError")

\* C3 (as stated): once the build tool was launched, the invocation exits with
\* the build tool's exit status, whatever it is.
C3_StatusUnchanged == (launched /\ pc = "done") => exitCode = childStatus

\* C3 (amended): once the build tool was launched, the invocation exits 0 when
\* the build tool exited 0 and with the generic failure status 1 otherwise; a
\* build tool that could not be launched gives 1 as well.
C3_StatusSuccessOnly ==
    /\ (launched /\ pc = "done") => exitCode = (IF childStatus = 0 THEN 0 ELSE 1)
    /\ (pc = "done" /\ error = "could not execute cargo command")
          => (~launched /\ exitCode = 1)

\* The build tool ended with status 2 and the invocation with status 1.
C3_Witness == launched /\ pc = "done" /\ childStatus = 2 /\ exitCode = 1

\* C4: in forwarding mode the build tool is launched, or about to be, only when
\* the metadata was read, the temporary directory created and
\* initialize_fake_workspace returned Ok; after any failure it is not launched.
C4_LaunchOnlyAfterSkeleton ==
    /\ (launched \/ pc = "launch")
          => /\ mode = "forward"
             /\ initRet = "ok"
             /\ Len(log) >= 2 /\ log[1].op = "tempdir" /\ log[2].op = "copy_lock"
    /\ (initRet \in {"err", "panic"} \/ error \in IoErrors) => ~launched

\* A forwarding run whose skeleton step failed ended without a launch.
C4_Witness ==
    /\ mode = "forward" /\ pc = "done" /\ initRet = "err" /\ ~launched
    /\ Len(MatLog) >= 2

IsPrefixSeq(a, b) == Len(a) <= Len(b) /\ SubSeq(b, 1, Len(a)) = a

\* C5: materialization is fail-fast without rollback. The operations done are
\* always a prefix of the planned sequence; Ok is returned only when the whole
\* plan was carried out; after an error the log stops short of the plan, and
\* the destination holds exactly what the operations done before the failure
\* wrote, each file with its bytes, all of them paths of the planned tree.
C5_FailFastNoRollback ==
    LET plan == Plan(metadata)
        done == MatLog
    IN /\ IsPrefixSeq(done, plan.ops)
       /\ initRet = "ok" => (done = plan.ops /\ plan.ok)
       /\ initRet = "err" => Len(done) < Len(plan.ops)
       /\ (Returned /\ initRet = "err")
             => /\ FilePairs = Replay(done)
                /\ DOMAIN files \subseteq { e[1] : e \in Replay(plan.ops) }

\* A manifest copy or stub write failed after files had been written.
C5_Witness ==
    /\ Returned /\ initRet = "err"
    /\ error \in {"could not copy manifest file", "could not create source file"}
    /\ Cardinality(DOMAIN files) >= 2

Perms(n) == { f \in [1..n -> 1..n] : \A k, l \in 1..n : f[k] = f[l] => k = l }

Reverse(sq) == [k \in 1..Len(sq) |-> sq[Len(sq) + 1 - k]]

\* The metadata with its packages in the order f and, when rev, the targets of
\* every package reversed.
Reorder(md, f, rev) ==
    [packages |->
        [k \in 1..Len(md.packages) |->
            [id |-> md.packages[f[k]].id,
             manifest_path |-> md.packages[f[k]].manifest_path,
             targets |-> IF rev THEN Reverse(md.packages[f[k]].targets)
                         ELSE md.packages[f[k]].targets]],
     workspace_members |-> md.workspace_members]

SameTreeInEveryOrder ==
    \A f \in Perms(Len(metadata.packages)) : \A rev \in BOOLEAN :
        LET plan == Plan(Reorder(metadata, f, rev))
        IN plan.ok => Replay(plan.ops) = FilePairs

\* C6 (as stated): a successful materialization leaves the same paths with the
\* same bytes as a successful materialization of the same metadata with its
\* packages, and the targets within them, in any other order.
C6_OrderInsignificant == (Returned /\ initRet = "ok") => SameTreeInEveryOrder

\* C6 (amended): the same, for metadata in which no target of one member is
\* re-rooted onto another member's manifest.
C6_OrderInsignificantNoConflict ==
    (Returned /\ initRet = "ok" /\ NoStubOverOtherManifest(metadata))
        => SameTreeInEveryOrder

\* A success with two members that both have a target.
C6_Witness ==
    /\ Returned /\ initRet = "ok" /\ NoStubOverOtherManifest(metadata)
    /\ DistinctPaths(metadata)
    /\ Len(MemberPkgs(metadata)) = 2
    /\ \A k \in 1..2 : MemberPkgs(metadata)[k].targets # <<>>

Last(sq) == sq[Len(sq)]

C8_NoPathWrittenTwice == \A p \in DOMAIN files : WriteCount(p) <= 1

\* C8 (amended): no destination path is written more than once when the
\* lockfile, the member manifests and the targets are re-rooted to pairwise
\* different paths; a path written again holds the bytes of its last write.
C8_NoPathWrittenTwiceIfDistinct ==
    /\ (\A p \in DOMAIN files : WriteCount(p) <= 1) \/ ~DistinctPaths(metadata)
    /\ Returned => FilePairs = Replay(MatLog)

\* A success with two stubs at different paths, each path written once.
C8_Witness ==
    /\ Returned /\ initRet = "ok" /\ DistinctPaths(metadata)
    /\ Cardinality(TargetSlots(metadata)) >= 2

\* C9: every step begins only after the steps before it succeeded. The
\* destination exists before the lockfile copy, which is the first operation
\* of the materialization; a manifest copy directly follows the creation of its
\* directory and a stub write the creation of its parent directory, so that at
\* every file write the parent of the written path is a directory.
C9_StepsInSequence ==
    LET done == MatLog
    IN /\ pc = "copy_lock" => (Dest \in dirs /\ done = <<>>)
       /\ done # <<>> => done[1].op = "copy_lock"
       /\ pc = "copy_manifest" => Parent(DestManifest(Member)) \in dirs
       /\ pc = "write_stub" => Parent(DestSource(Member, Target)) \in dirs
       /\ \A k \in 1..Len(done) :
             done[k].op \in {"copy_manifest", "write_stub"}
                 => /\ done[k - 1].op = "create_dir_all"
                    /\ done[k - 1].path = Parent(done[k].path)
       /\ \A k \in 1..Len(done) :
             done[k].op = "write_stub"
                 => \E m \in 1..(k - 1) :
                       /\ done[m].op = "copy_manifest"
                       /\ IsPrefix(Parent(done[m].path), done[k].path)
                       /\ \A l \in (m + 1)..(k - 1) : done[l].op # "copy_manifest"

\* A stub is about to be written into a subdirectory of its package directory.
C9_Witness ==
    /\ pc = "write_stub"
    /\ Parent(DestSource(Member, Target)) # Parent(DestManifest(Member))
    /\ Parent(DestSource(Member, Target)) \in dirs

InitialFiles ==
    IF pre = "populated" THEN {<<DestLock, <<79>>>>} ELSE {}

\* C10: with --dest the build tool is never launched. When the destination
\* already exists (empty or populated) the invocation fails at its creation:
\* initialize_fake_workspace is never called and the directory is left as it
\* was. When it does not exist it is created before the lockfile is copied.
C10_DestinationMustNotExist ==
    /\ mode = "dest" => (~launched /\ pc # "launch")
    /\ (mode = "dest" /\ pre # "absent")
          => /\ initRet = "none" /\ pc \notin {"copy_lock", "pkg_dir"}
             /\ log = <<>> /\ reads = {}
             /\ FilePairs = InitialFiles /\ dirs = {<<>>, Dest}
             /\ pc = "done" => (result = "err" /\ exitCode = 1)
             /\ (pc = "done" /\ error # "could not read cargo metadata")
                   => error = "could not create destination directory"
    /\ (mode = "dest" /\ pre = "absent" /\ (pc = "copy_lock" \/ initRet # "none"))
          => (log[1].op = "create_dir" /\ log[1].path = Dest)

\* A run with --dest naming a populated directory ended at its creation.
C10_Witness ==
    /\ mode = "dest" /\ pre = "populated" /\ pc = "done"
    /\ error = "could not create destination directory"

====
